---- MODULE Spec2Model ----
(***************************************************************************)
(* Sender side of VCMTPv3 (vcmtpSendv3.cpp, senderMetadata.h,              *)
(* RetxThreads.cpp).  The threads of one sender are modelled as they run   *)
(* in the code: the application thread calling Start / sendProduct / Stop, *)
(* the timer thread, the coordinator (acceptor) thread and one             *)
(* retransmission thread per accepted TCP connection.                      *)
(***************************************************************************)
EXTENDS Integers, Sequences, FiniteSets, TLC

(***************************************************************************)
(* Bounds of the model.                                                    *)
(***************************************************************************)
\* connection ids (socket descriptors) are 1..MaxConn
MaxConn == 1
\* number of sendProduct() calls the application makes
MaxCalls == 2
\* largest retransmission timeout period, in clock ticks
MaxDelay == 1
\* size of a data block; the sizes below are scaled down with it
VCMTP_DATA_LEN == 2
\* modulus of the uint32_t arithmetic, scaled down with the block size
UINT32_MOD == 16
\* largest payloadlen of a RETX_REQ given to retransmit()
MaxPayload == 6

\* room for metadata in a BOP: the block size less the fixed BOP fields
AVAIL_BOP_LEN == VCMTP_DATA_LEN - 1

Conns == 1..MaxConn
ProdIdx == 0..(MaxCalls - 1)
InitProdIndex == 0
\* product size the application passes: a block and one byte of a second
ProdSizes == {VCMTP_DATA_LEN + 1}
\* a dataSize above 0xFFFFFFFF
SizeTooBig == UINT32_MOD

NULL == "NULL"
PTR == "PTR"
NoErr == "none"
NoVal == 0 - 1
InvalidArgument == "InvalidArgument"
IoError == "Io"
\* what the notifier throws in the timer thread, acceptConn in the coordinator
TimerError == "Timer"
CoorError == "Accept"

MIN(a, b) == IF a <= b THEN a ELSE b

(***************************************************************************)
(* Wire formats.  htonl/htons are kept as conversions: a field in network  *)
(* byte order is not the host integer it was made from.                    *)
(***************************************************************************)
htonl(x) == <<"be32", x>>
htons(x) == <<"be16", x>>

VCMTP_BOP == "BOP"
VCMTP_MEM_DATA == "MEM_DATA"
VCMTP_EOP == "EOP"
VCMTP_RETX_REQ == "RETX_REQ"
VCMTP_RETX_REJ == "RETX_REJ"
VCMTP_RETX_END == "RETX_END"
VCMTP_RETX_DATA == "RETX_DATA"
VCMTP_BOP_REQ == "BOP_REQ"
VCMTP_RETX_BOP == "RETX_BOP"
VCMTP_EOP_REQ == "EOP_REQ"
VCMTP_RETX_EOP == "RETX_EOP"

\* the bytes at [off, off+len) of the memory the application passed as data:
\* every offset holds a different byte, so a body names the range it was
\* copied from
DataBytes(off, len) == [i \in 1..len |-> off + i - 1]
\* the first len bytes of the memory at metadata, as memcpy and a gather send
\* read them at the time they run
MetaBytes(metadata, len) == [i \in 1..len |-> metadata[i]]
\* the memory behind the application's metadata pointer, which the
\* application of Spec leaves as it is
AppMetadata == [i \in 1..AVAIL_BOP_LEN |-> 100 + i]

Frame(prodindex, seqnum, payloadlen, flags, body) ==
    [prodindex |-> prodindex, seqnum |-> seqnum, payloadlen |-> payloadlen,
     flags |-> flags, body |-> body]

VARIABLES
    started,        \* Start() has returned
    appStopped,     \* the application has called Stop() itself
    crashed,        \* the process died of undefined behaviour
    prodIndex,      \* vcmtpSendv3::prodIndex
    except,         \* vcmtpSendv3::except (NoErr while exceptIsSet is false)
    spc,            \* where the application thread is
    sargs,          \* the arguments of the sendProduct() call in progress
    sloop,          \* sendData()'s locals: dataSize, data offset, seqNum
    smeta,          \* senderProdMeta: id of the entry addRetxMetadata() made
    serr,           \* the exception caught in sendProduct()
    ncalls,         \* sendProduct() calls made so far
    entryIndex,     \* prodIndex when the call in progress was entered
    wireStart,      \* Len(mcastOut) when the call in progress was entered
    returned,       \* value the last finished sendProduct() returned
    raised,         \* exception the last finished call raised to the caller
    indexMetaMap,   \* senderMetadata::indexMetaMap
    everAdded,      \* prodindexes handed to senderMetadata::addRetxMetadata
    snapOf,         \* per entry id, the sockets connected when it was built
    timerDelayQ,    \* the delay queue: entries ordered by wake time
    qDisabled,      \* timerDelayQ.disable() was called
    tpc,            \* where the timer thread is
    tprodindex,     \* timerThread()'s outer local prodindex
    tJoined,        \* timer_t was joined
    cpc,            \* where the coordinator thread is
    csock,          \* newtcpsockfd
    ccancel,        \* a cancellation request is pending on coor_t
    cJoined,        \* coor_t was joined
    connSockList,   \* TcpSend's list of connected sockets
    openSocks,      \* accepted sockets that were not closed
    retxThreadList, \* RetxThreads::threads
    wpc,            \* where each retransmission thread is
    whdr,           \* recvheader of each retransmission thread
    wmeta,          \* retxMeta of each retransmission thread
    wcancel,        \* a cancellation request is pending on the thread
    resp,           \* frames TcpSend::send() wrote for whdr, and its failure
    notified,       \* notify_of_eop() calls per prodindex (counted up to 2)
    mcastOut,       \* frames given to UdpSend, in order
    rx,             \* one retransmit() run on its own (RetxSpec)
    bq,             \* one product's BOP and its BOP_REQ on their own (BopSpec)
    tb,             \* the retransmission table on its own (TableSpec)
    dq,             \* the delay queue on its own, with a clock (DelaySpec)
    sd              \* sendData on its own, for every size (DataSpec)

senderVars == <<prodIndex, spc, sargs, sloop, smeta, serr, ncalls, entryIndex,
                wireStart, returned, raised, mcastOut>>
lifeVars == <<started, appStopped, crashed, except>>
tableVars == <<indexMetaMap, everAdded, snapOf, notified>>
timerVars == <<timerDelayQ, qDisabled, tpc, tprodindex, tJoined>>
coorVars == <<cpc, csock, ccancel, cJoined>>
sockVars == <<connSockList, openSocks, retxThreadList>>
workerVars == <<wpc, whdr, wmeta, wcancel, resp>>
aloneVars == <<rx, bq, tb, dq, sd>>
vars == <<senderVars, lifeVars, tableVars, timerVars, coorVars, sockVars,
          workerVars, aloneVars>>

NoEntry == [present |-> FALSE]
NoArgs == [data |-> NULL, dataSize |-> 0, metadata |-> NULL, metaSize |-> 0]
NoLoop == [dataSize |-> 0, data |-> 0, seqNum |-> 0]
NoHdr == [prodindex |-> 0, seqnum |-> 0, payloadlen |-> 0, flags |-> "none"]
NoRx == [pc |-> "off"]
NoBq == [pc |-> "off"]
NoTb == [pc |-> "off"]
NoDq == [pc |-> "off"]
NoSd == [pc |-> "off"]

\* the state after the constructor, but for rx, bq, tb, dq and sd
MainInit ==
    /\ started = FALSE
    /\ appStopped = FALSE
    /\ crashed = FALSE
    /\ prodIndex = InitProdIndex
    /\ except = NoErr
    /\ spc = "idle"
    /\ sargs = NoArgs
    /\ sloop = NoLoop
    /\ smeta = 0
    /\ serr = NoErr
    /\ ncalls = 0
    /\ entryIndex = NoVal
    /\ wireStart = 0
    /\ returned = NoVal
    /\ raised = NoErr
    /\ indexMetaMap = [p \in ProdIdx |-> NoEntry]
    /\ everAdded = {}
    /\ snapOf = [i \in 1..MaxCalls |-> {}]
    /\ timerDelayQ = <<>>
    /\ qDisabled = FALSE
    /\ tpc = "none"
    /\ tprodindex = 0
    /\ tJoined = FALSE
    /\ cpc = "none"
    /\ csock = 0
    /\ ccancel = FALSE
    /\ cJoined = FALSE
    /\ connSockList = {}
    /\ openSocks = {}
    /\ retxThreadList = {}
    /\ wpc = [c \in Conns |-> "none"]
    /\ whdr = [c \in Conns |-> NoHdr]
    /\ wmeta = [c \in Conns |-> NoEntry]
    /\ wcancel = [c \in Conns |-> FALSE]
    /\ resp = [c \in Conns |-> <<>>]
    /\ notified = [p \in ProdIdx |-> 0]
    /\ mcastOut = <<>>

\* the state after the constructor
Init ==
    /\ MainInit
    /\ rx = NoRx /\ bq = NoBq /\ tb = NoTb /\ dq = NoDq /\ sd = NoSd

(***************************************************************************)
(* senderMetadata: the retransmission table.  Every operation runs under   *)
(* the map's lock, so each is one atomic step of its caller.               *)
(***************************************************************************)
\* senderMetadata::addRetxMetadata: indexMetaMap[prodindex] = ptrMeta
MapAdd(map, meta) == [map EXCEPT ![meta.prodindex] = meta]

\* senderMetadata::getMetadata: the entry or NULL (NoEntry)
GetMetadata(map, prodindex) == map[prodindex]

\* a variant for comparison: rmRetxMetadata that reports a removal whether or
\* not the entry was there
RmRetxMetadataTrue(map, prodindex) ==
    [map |-> [map EXCEPT ![prodindex] = NoEntry], removed |-> TRUE]

\* senderMetadata::rmRetxMetadata: erases the entry; true iff it was there
RmRetxMetadata(map, prodindex) ==
    [map |-> [map EXCEPT ![prodindex] = NoEntry],
     removed |-> map[prodindex].present]

\* a variant for comparison: clearUnfinishedSet that erases the entry as soon
\* as one receiver has finished
ClearUnfinishedSetFirst(map, prodindex, retxsockfd) ==
    IF ~map[prodindex].present
    THEN [map |-> map, removed |-> FALSE]
    ELSE [map |-> [map EXCEPT ![prodindex] = NoEntry], removed |-> TRUE]

\* senderMetadata::clearUnfinishedSet: erases the receiver from the entry's
\* set and, when the set is then empty, erases the entry and returns true
ClearUnfinishedSet(map, prodindex, retxsockfd) ==
    IF ~map[prodindex].present
    THEN [map |-> map, removed |-> FALSE]
    ELSE LET rest == map[prodindex].unfinReceivers \ {retxsockfd}
         IN  IF rest = {}
             THEN [map |-> [map EXCEPT ![prodindex] = NoEntry],
                   removed |-> TRUE]
             ELSE [map |-> [map EXCEPT ![prodindex].unfinReceivers = rest],
                   removed |-> FALSE]

\* notifier->notify_of_eop(prodindex); the count stops at 2
Notify(n, prodindex) ==
    [n EXCEPT ![prodindex] = IF @ < 2 THEN @ + 1 ELSE @]

(***************************************************************************)
(* The delay queue: entries <<index, rem>> in the order of their wake      *)
(* times, rem being the ticks left until the wake time.                    *)
(***************************************************************************)
RECURSIVE InsertByDelay(_, _)
InsertByDelay(q, e) ==
    IF q = <<>> THEN <<e>>
    ELSE IF Head(q).rem <= e.rem THEN <<Head(q)>> \o InsertByDelay(Tail(q), e)
    ELSE <<e>> \o q

\* a variant for comparison: a push that appends, whatever the delay
QueuePushFifo(q, index, seconds) == Append(q, [index |-> index, rem |-> seconds])

\* ProdIndexDelayQueue::push
QueuePush(q, index, seconds) == InsertByDelay(q, [index |-> index, rem |-> seconds])

\* the queue one tick later
Elapse(q) == [i \in 1..Len(q) |-> [q[i] EXCEPT !.rem = IF @ > 0 THEN @ - 1 ELSE 0]]

\* ProdIndexDelayQueue::pop has an entry to return: the earliest wake time
\* has come
QueueReady(q) == q # <<>> /\ Head(q).rem = 0

\* time passes by one tick
Tick ==
    /\ ~crashed
    /\ \E i \in 1..Len(timerDelayQ) : timerDelayQ[i].rem > 0
    /\ timerDelayQ' = Elapse(timerDelayQ)
    /\ UNCHANGED <<senderVars, lifeVars, tableVars, qDisabled, tpc, tprodindex,
                   tJoined, coorVars, sockVars, workerVars, aloneVars>>

(***************************************************************************)
(* The application thread: Start, sendProduct, Stop.                       *)
(***************************************************************************)
\* vcmtpSendv3::Start
Start ==
    /\ ~crashed
    /\ spc = "idle" /\ ~started
    /\ started' = TRUE
    /\ tpc' = "pop"
    /\ cpc' = "accept"
    /\ UNCHANGED <<senderVars, appStopped, crashed, except, tableVars,
                   timerDelayQ, qDisabled, tprodindex, tJoined, csock, ccancel,
                   cJoined, sockVars, workerVars, aloneVars>>

\* the argument checks of sendProduct: the exception thrown, or NoErr
Validate(data, dataSize, metadata, metaSize) ==
    IF data = NULL THEN InvalidArgument
    ELSE IF dataSize > UINT32_MOD - 1 THEN InvalidArgument
    ELSE IF metadata # NULL /\ AVAIL_BOP_LEN < metaSize THEN InvalidArgument
    ELSE IF metadata = NULL /\ metaSize # 0 THEN InvalidArgument
    ELSE NoErr

\* a variant for comparison: sendProduct that multicasts the BOP before it adds the entry
StepAfterBopFirst(step) ==
    CASE step = "validate" -> "bop"
      [] step = "bop" -> "add"
      [] step = "add" -> "data"
      [] step = "data" -> "setTimer"

\* the order of the steps of sendProduct's try block: the entry is added to
\* the table, then the BOP, the data blocks and the EOP are multicast, then
\* the timer is set
StepAfter(step) ==
    CASE step = "validate" -> "add"
      [] step = "add" -> "bop"
      [] step = "bop" -> "data"
      [] step = "data" -> "setTimer"

\* a variant for comparison: return ++prodIndex
PreIncrement(index) == [value |-> index + 1, counter |-> index + 1]

\* return prodIndex++: the value returned and the counter left behind
PostIncrement(index) == [value |-> index, counter |-> index + 1]

\* the calls the application makes: the valid calls without and with a
\* metadata pointer, and the calls that fail one of the four checks
CallArgs ==
    {<<PTR, n, NULL, 0>> : n \in ProdSizes}
        \cup {<<PTR, n, PTR, 0>> : n \in ProdSizes}
        \cup {<<NULL, n, NULL, 0>> : n \in ProdSizes}
        \cup {<<PTR, SizeTooBig, NULL, 0>>}
        \cup {<<PTR, n, PTR, AVAIL_BOP_LEN + 1>> : n \in ProdSizes}
        \cup {<<PTR, n, NULL, AVAIL_BOP_LEN + 1>> : n \in ProdSizes}

\* sendProduct is entered and checks its arguments.  The metadata pointer of
\* an accepted call with a metaSize of 0 is never read: it is kept as NULL.
SendProductCall(data, dataSize, metadata, metaSize) ==
    /\ ~crashed
    /\ spc = "idle" /\ started /\ ~appStopped /\ ncalls < MaxCalls
    /\ ncalls' = ncalls + 1
    /\ entryIndex' = prodIndex
    /\ wireStart' = Len(mcastOut)
    /\ returned' = NoVal
    /\ raised' = NoErr
    /\ serr' = Validate(data, dataSize, metadata, metaSize)
    /\ sargs' = [data |-> data, dataSize |-> dataSize,
                 metadata |-> IF serr' = NoErr /\ metaSize = 0
                              THEN NULL ELSE metadata,
                 metaSize |-> metaSize]
    /\ spc' = IF serr' = NoErr THEN StepAfter("validate") ELSE "taskExit"
    /\ UNCHANGED <<prodIndex, sloop, smeta, mcastOut, lifeVars, tableVars,
                   timerVars, coorVars, sockVars, workerVars, aloneVars>>

\* a variant for comparison: an entry whose set is every connection there can
\* be, not the connections of the moment
NewRetxMetadataAllConns(id, index, dataSize, metaSize, socks) ==
    [present |-> TRUE, id |-> id, prodindex |-> index, prodLength |-> dataSize,
     metaSize |-> metaSize, unfinReceivers |-> Conns]

\* the entry vcmtpSendv3::addRetxMetadata builds
NewRetxMetadata(id, index, dataSize, metaSize, socks) ==
    [present |-> TRUE, id |-> id, prodindex |-> index, prodLength |-> dataSize,
     metaSize |-> metaSize, unfinReceivers |-> socks]

\* vcmtpSendv3::addRetxMetadata
AddRetxMetadata ==
    /\ ~crashed
    /\ spc = "add"
    /\ indexMetaMap' = MapAdd(indexMetaMap,
            NewRetxMetadata(ncalls, prodIndex, sargs.dataSize, sargs.metaSize,
                            connSockList))
    /\ everAdded' = everAdded \cup {prodIndex}
    /\ smeta' = ncalls
    /\ snapOf' = [snapOf EXCEPT ![ncalls] = connSockList]
    /\ spc' = StepAfter("add")
    /\ UNCHANGED <<prodIndex, sargs, sloop, serr, ncalls, entryIndex, wireStart,
                   returned, raised, mcastOut, lifeVars, notified, timerVars,
                   coorVars, sockVars, workerVars, aloneVars>>

\* the datagram SendBOPMessage gathers
BOPFrame(index, prodSize, metadata, metaSize) ==
    Frame(htonl(index), htonl(0), htons(metaSize + (VCMTP_DATA_LEN - AVAIL_BOP_LEN)),
          htons(VCMTP_BOP),
          <<htonl(prodSize), htons(metaSize)>> \o MetaBytes(metadata, metaSize))

\* a step of the multicast fails: the exception is caught in sendProduct
SendFails ==
    /\ serr' = IoError
    /\ spc' = "taskExit"
    /\ UNCHANGED <<prodIndex, sargs, sloop, smeta, ncalls, entryIndex, wireStart,
                   returned, raised, mcastOut>>

\* vcmtpSendv3::SendBOPMessage
SendBOPMessage ==
    /\ ~crashed
    /\ spc = "bop"
    /\ \/ /\ mcastOut' = Append(mcastOut,
                 BOPFrame(prodIndex, sargs.dataSize, AppMetadata, sargs.metaSize))
          /\ sloop' = [dataSize |-> sargs.dataSize, data |-> 0, seqNum |-> 0]
          /\ spc' = StepAfter("bop")
          /\ UNCHANGED <<prodIndex, sargs, smeta, serr, ncalls, entryIndex,
                         wireStart, returned, raised>>
       \/ SendFails
    /\ UNCHANGED <<lifeVars, tableVars, timerVars, coorVars, sockVars,
                   workerVars, aloneVars>>

\* a variant for comparison: SendData that does not advance the sequence number
MemDataFrameSeqZero(index, seqNum, data, payloadlen) ==
    Frame(htonl(index), htonl(0), htons(payloadlen), htons(VCMTP_MEM_DATA),
          DataBytes(data, payloadlen))

\* the datagram one iteration of sendData's loop sends
MemDataFrame(index, seqNum, data, payloadlen) ==
    Frame(htonl(index), htonl(seqNum), htons(payloadlen), htons(VCMTP_MEM_DATA),
          DataBytes(data, payloadlen))

\* a variant for comparison: sendData that gives every block the full length
PayloadLenFull(dataSize) == VCMTP_DATA_LEN

\* sendData: the length of the next block
PayloadLen(dataSize) ==
    IF dataSize < VCMTP_DATA_LEN THEN dataSize ELSE VCMTP_DATA_LEN

\* sendData: the locals after a block of payloadlen bytes was sent
DataLoopAfter(l, payloadlen) ==
    [dataSize |-> l.dataSize - payloadlen,
     data |-> l.data + payloadlen,
     seqNum |-> (l.seqNum + payloadlen) % UINT32_MOD]

\* one iteration of the loop of vcmtpSendv3::sendData
SendDataBlock ==
    /\ ~crashed
    /\ spc = "data" /\ sloop.dataSize > 0
    /\ LET payloadlen == PayloadLen(sloop.dataSize)
       IN  \/ /\ mcastOut' = Append(mcastOut,
                     MemDataFrame(prodIndex, sloop.seqNum, sloop.data, payloadlen))
              /\ sloop' = DataLoopAfter(sloop, payloadlen)
              /\ UNCHANGED <<prodIndex, spc, sargs, smeta, serr, ncalls,
                             entryIndex, wireStart, returned, raised>>
           \/ SendFails
    /\ UNCHANGED <<lifeVars, tableVars, timerVars, coorVars, sockVars,
                   workerVars, aloneVars>>

\* the datagram sendEOPMessage sends
EOPFrame(index) == Frame(htonl(index), htonl(0), htons(0), htons(VCMTP_EOP), <<>>)

\* vcmtpSendv3::sendEOPMessage, once sendData's loop has ended
SendEOPMessage ==
    /\ ~crashed
    /\ spc = "data" /\ sloop.dataSize = 0
    /\ \/ /\ mcastOut' = Append(mcastOut, EOPFrame(prodIndex))
          /\ spc' = StepAfter("data")
          /\ UNCHANGED <<prodIndex, sargs, sloop, smeta, serr, ncalls,
                         entryIndex, wireStart, returned, raised>>
       \/ SendFails
    /\ UNCHANGED <<lifeVars, tableVars, timerVars, coorVars, sockVars,
                   workerVars, aloneVars>>

\* the entry addRetxMetadata returned to sendProduct has since been removed
\* from the table and deleted
SenderEntryFreed ==
    \A p \in ProdIdx : ~(indexMetaMap[p].present /\ indexMetaMap[p].id = smeta)

\* setTimerParameters writes mcastEndTime and retxTimeoutPeriod into an entry
\* that was deleted, and push reads the period from it.  The accesses are
\* undefined: the call goes on with whatever period it reads (PushAndReturn),
\* or the process dies.
SenderTouchesFreed ==
    /\ ~crashed
    /\ spc = "setTimer"
    /\ SenderEntryFreed
    /\ crashed' = TRUE
    /\ UNCHANGED <<senderVars, started, appStopped, except, tableVars,
                   timerVars, coorVars, sockVars, workerVars, aloneVars>>

\* vcmtpSendv3::setTimerParameters, timerDelayQ.push and return prodIndex++
PushAndReturn ==
    /\ ~crashed
    /\ spc = "setTimer"
    /\ \E period \in 0..MaxDelay :
          timerDelayQ' = IF qDisabled THEN timerDelayQ
                         ELSE QueuePush(timerDelayQ, prodIndex, period)
    /\ returned' = PostIncrement(prodIndex).value
    /\ prodIndex' = PostIncrement(prodIndex).counter
    /\ spc' = "idle"
    /\ sloop' = NoLoop /\ smeta' = 0
    /\ UNCHANGED <<sargs, serr, ncalls, entryIndex, wireStart,
                   raised, mcastOut, lifeVars, tableVars, qDisabled, tpc,
                   tprodindex, tJoined, coorVars, sockVars, workerVars, aloneVars>>

\* a variant for comparison: taskExit that stores the exception whether or
\* not the slot is set
TaskExitOverwrites ==
    /\ ~crashed
    /\ spc = "taskExit"
    /\ except' = serr
    /\ spc' = "stop"
    /\ UNCHANGED <<prodIndex, sargs, sloop, smeta, serr, ncalls, entryIndex,
                   wireStart, returned, raised, mcastOut, started, appStopped,
                   crashed, tableVars, timerVars, coorVars, sockVars,
                   workerVars, aloneVars>>

\* vcmtpSendv3::taskExit up to its call of Stop: the first exception is kept
TaskExit ==
    /\ ~crashed
    /\ spc = "taskExit"
    /\ except' = IF except = NoErr THEN serr ELSE except
    /\ spc' = "stop"
    /\ UNCHANGED <<prodIndex, sargs, sloop, smeta, serr, ncalls, entryIndex,
                   wireStart, returned, raised, mcastOut, started, appStopped,
                   crashed, tableVars, timerVars, coorVars, sockVars,
                   workerVars, aloneVars>>

\* the application calls Stop()
AppStop ==
    /\ ~crashed
    /\ spc = "idle" /\ started /\ ~appStopped
    /\ appStopped' = TRUE
    /\ returned' = NoVal
    /\ raised' = NoErr
    /\ spc' = "stop"
    /\ UNCHANGED <<prodIndex, sargs, sloop, smeta, serr, ncalls, entryIndex,
                   wireStart, mcastOut, started, crashed, except, tableVars,
                   timerVars, coorVars, sockVars, workerVars, aloneVars>>

\* retransmission threads that have ended: their handles are no longer valid
EndedWorkers == {c \in Conns : wpc[c] \in {"none", "cancelled"}}

\* RetxThreads::shutdown: the list it leaves behind.  (void)threads.empty()
\* asks whether the list is empty and removes nothing.
ShutdownList(threads) == threads

\* RetxThreads::shutdown: the cancellation requests pending after it
ShutdownCancels(threads) ==
    [c \in Conns |-> wcancel[c] \/ c \in threads \ EndedWorkers]

\* Stop: timerDelayQ.disable(), pthread_cancel(coor_t),
\* retxThreadList.shutdown().  shutdown() cancels every thread of the list and
\* leaves the list as it is.  Cancelling a joined or ended detached thread is
\* undefined: the call returns or the process dies.
StopSignal ==
    /\ ~crashed
    /\ spc = "stop"
    /\ qDisabled' = TRUE
    /\ ccancel' = TRUE
    /\ wcancel' = ShutdownCancels(retxThreadList)
    /\ retxThreadList' = ShutdownList(retxThreadList)
    /\ \/ UNCHANGED crashed
       \/ /\ cJoined \/ retxThreadList \cap EndedWorkers # {}
          /\ crashed' = TRUE
    /\ spc' = "join"
    /\ UNCHANGED <<prodIndex, sargs, sloop, smeta, serr, ncalls, entryIndex,
                   wireStart, returned, raised, mcastOut, started, appStopped,
                   except, tableVars, timerDelayQ, tpc, tprodindex, tJoined, cpc,
                   csock, cJoined, connSockList, openSocks, wpc, whdr, wmeta,
                   resp, aloneVars>>

\* Stop: pthread_join(timer_t), pthread_join(coor_t), then throw except if it
\* is set; in sendProduct's handler, throw e follows taskExit(e).  Joining a
\* thread a second time is undefined: the call returns or the process dies.
StopJoin ==
    /\ ~crashed
    /\ spc = "join"
    /\ tpc = "done" /\ cpc = "done"
    /\ tJoined' = TRUE
    /\ cJoined' = TRUE
    /\ \/ UNCHANGED crashed
       \/ /\ tJoined \/ cJoined
          /\ crashed' = TRUE
    /\ raised' = IF except # NoErr THEN except ELSE serr
    /\ serr' = NoErr
    /\ spc' = "idle"
    /\ sloop' = NoLoop /\ smeta' = 0
    /\ sargs' = IF serr # NoErr THEN NoArgs ELSE sargs
    /\ UNCHANGED <<prodIndex, ncalls, entryIndex,
                   wireStart, returned, mcastOut, started, appStopped, except,
                   tableVars, timerDelayQ, qDisabled, tpc, tprodindex, cpc, csock, ccancel,
                   sockVars, workerVars, aloneVars>>

(***************************************************************************)
(* The timer thread.                                                       *)
(***************************************************************************)
\* values the uninitialised outer local prodindex of timerThread may hold
UninitValues == ProdIdx

\* the index timerThread hands to rmRetxMetadata and to the notifier after
\* pop() returned popped: the pop's result is stored in an inner local that
\* shadows the outer one, which is read without ever being written
TimerIndex(popped, garbage) == garbage

\* timerThread: timerDelayQ.pop() returns the entry whose wake time has come
TimerPop ==
    /\ ~crashed
    /\ tpc = "pop" /\ ~qDisabled
    /\ QueueReady(timerDelayQ)
    /\ timerDelayQ' = Tail(timerDelayQ)
    /\ \E garbage \in UninitValues :
          tprodindex' = TimerIndex(Head(timerDelayQ).index, garbage)
    /\ tpc' = "remove"
    /\ UNCHANGED <<senderVars, lifeVars, tableVars, qDisabled, tJoined,
                   coorVars, sockVars, workerVars, aloneVars>>

\* timerThread: pop() throws because the queue was disabled; the thread ends
TimerDisabled ==
    /\ ~crashed
    /\ tpc = "pop" /\ qDisabled
    /\ tpc' = "done"
    /\ UNCHANGED <<senderVars, lifeVars, tableVars, timerDelayQ, qDisabled,
                   tprodindex, tJoined, coorVars, sockVars, workerVars, aloneVars>>

\* timerThread: rmRetxMetadata(prodindex) and, if it removed, notify_of_eop
TimerRemove ==
    /\ ~crashed
    /\ tpc = "remove"
    /\ LET r == RmRetxMetadata(indexMetaMap, tprodindex)
       IN  /\ indexMetaMap' = r.map
           /\ notified' = IF r.removed THEN Notify(notified, tprodindex)
                          ELSE notified
    /\ tprodindex' = 0
    /\ tpc' = "pop"
    /\ UNCHANGED <<senderVars, lifeVars, everAdded, snapOf, timerDelayQ,
                   qDisabled, tJoined, coorVars, sockVars, workerVars, aloneVars>>

\* timerThread: the entry is removed and notify_of_eop throws; timerWrapper
\* catches the exception and calls taskExit, which sets the slot if empty
TimerFails ==
    /\ ~crashed
    /\ tpc = "remove"
    /\ LET r == RmRetxMetadata(indexMetaMap, tprodindex)
       IN  /\ r.removed
           /\ indexMetaMap' = r.map
           /\ notified' = Notify(notified, tprodindex)
    /\ except' = IF except = NoErr THEN TimerError ELSE except
    /\ tprodindex' = 0
    /\ tpc' = "stop"
    /\ UNCHANGED <<senderVars, started, appStopped, crashed, everAdded, snapOf,
                   timerDelayQ, qDisabled, tJoined, coorVars, sockVars,
                   workerVars, aloneVars>>

\* Stop run by the timer thread: disable, cancel, shutdown
TimerStopSignal ==
    /\ ~crashed
    /\ tpc = "stop"
    /\ qDisabled' = TRUE
    /\ ccancel' = TRUE
    /\ wcancel' = ShutdownCancels(retxThreadList)
    /\ retxThreadList' = ShutdownList(retxThreadList)
    /\ \/ UNCHANGED crashed
       \/ /\ cJoined \/ retxThreadList \cap EndedWorkers # {}
          /\ crashed' = TRUE
    /\ tpc' = "join"
    /\ UNCHANGED <<senderVars, started, appStopped, except, tableVars,
                   timerDelayQ, tprodindex, tJoined, cpc, csock, cJoined,
                   connSockList, openSocks, wpc, whdr, wmeta, resp, aloneVars>>

\* Stop run by the timer thread: pthread_join(timer_t) names the calling
\* thread, which is undefined: the call fails with EDEADLK or never returns.
\* When it fails, coor_t is joined and throw except leaves the handler of
\* timerWrapper and the thread's start routine: the process is terminated.
TimerStopJoin ==
    /\ ~crashed
    /\ tpc = "join"
    /\ \/ /\ cpc = "done"
          /\ cJoined' = TRUE
          /\ crashed' = TRUE
          /\ tpc' = "escaped"
       \/ /\ tpc' = "hung"
          /\ UNCHANGED <<cJoined, crashed>>
    /\ UNCHANGED <<senderVars, started, appStopped, except, tableVars,
                   timerDelayQ, qDisabled, tprodindex, tJoined, cpc, csock,
                   ccancel, sockVars, workerVars, aloneVars>>

(***************************************************************************)
(* The coordinator thread.                                                 *)
(***************************************************************************)
\* coordinator: acceptConn() returns a new socket, which joins the list of
\* connected sockets
CoorAccept(c) ==
    /\ ~crashed
    /\ cpc = "accept" /\ ~ccancel
    /\ c \notin openSocks
    /\ openSocks' = openSocks \cup {c}
    /\ connSockList' = connSockList \cup {c}
    /\ csock' = c
    /\ cpc' = "spawn"
    /\ UNCHANGED <<senderVars, lifeVars, tableVars, timerVars, ccancel, cJoined,
                   retxThreadList, workerVars, aloneVars>>

\* coordinator: the pending cancellation is acted on in accept()
CoorCancelled ==
    /\ ~crashed
    /\ cpc = "accept" /\ ccancel
    /\ cpc' = "done"
    /\ UNCHANGED <<senderVars, lifeVars, tableVars, timerVars, csock, ccancel,
                   cJoined, sockVars, workerVars, aloneVars>>

\* coordinator: acceptConn() throws; the handler calls taskExit, which sets
\* the slot if empty
CoorFails ==
    /\ ~crashed
    /\ cpc = "accept" /\ ~ccancel
    /\ except' = IF except = NoErr THEN CoorError ELSE except
    /\ cpc' = "stop"
    /\ UNCHANGED <<senderVars, started, appStopped, crashed, tableVars,
                   timerVars, csock, ccancel, cJoined, sockVars, workerVars, aloneVars>>

\* Stop run by the coordinator: disable, cancel (of itself), shutdown
CoorStopSignal ==
    /\ ~crashed
    /\ cpc = "stop"
    /\ qDisabled' = TRUE
    /\ ccancel' = TRUE
    /\ wcancel' = ShutdownCancels(retxThreadList)
    /\ retxThreadList' = ShutdownList(retxThreadList)
    /\ \/ UNCHANGED crashed
       \/ /\ retxThreadList \cap EndedWorkers # {}
          /\ crashed' = TRUE
    /\ cpc' = "join"
    /\ UNCHANGED <<senderVars, started, appStopped, except, tableVars,
                   timerDelayQ, tpc, tprodindex, tJoined, csock, cJoined,
                   connSockList, openSocks, wpc, whdr, wmeta, resp, aloneVars>>

\* Stop run by the coordinator: pthread_join(timer_t) is a cancellation point
\* and the thread's own cancellation is pending: the thread ends there, or
\* the join returns.  Then pthread_join(coor_t) names the calling thread,
\* which is undefined: it fails with EDEADLK, and throw except leaves the
\* handler of coordinator and the thread's start routine, which terminates
\* the process; or it never returns.
CoorStopJoin ==
    /\ ~crashed
    /\ cpc = "join"
    /\ \/ /\ cpc' = "done"
          /\ UNCHANGED <<tJoined, crashed>>
       \/ /\ tpc = "done"
          /\ tJoined' = TRUE
          /\ \/ cpc' = "escaped" /\ crashed' = TRUE
             \/ cpc' = "hung" /\ UNCHANGED crashed
    /\ UNCHANGED <<senderVars, started, appStopped, except, tableVars,
                   timerDelayQ, qDisabled, tpc, tprodindex, csock, ccancel,
                   cJoined, sockVars, workerVars, aloneVars>>

\* a variant for comparison: StartNewRetxThread with cancellation enabled,
\* the pending cancellation acted on before pthread_create
CoorSpawnCancellable ==
    /\ ~crashed
    /\ cpc = "spawn"
    /\ \/ /\ ~ccancel
          /\ wpc' = [wpc EXCEPT ![csock] = "parse"]
          /\ wcancel' = [wcancel EXCEPT ![csock] = FALSE]
          /\ cpc' = "register"
          /\ UNCHANGED <<connSockList, openSocks>>
       \/ /\ ~ccancel
          /\ connSockList' = connSockList \ {csock}
          /\ openSocks' = openSocks \ {csock}
          /\ cpc' = "accept"
          /\ UNCHANGED <<wpc, wcancel>>
       \/ /\ ccancel
          /\ cpc' = "done"
          /\ UNCHANGED <<connSockList, openSocks, wpc, wcancel>>
    /\ UNCHANGED <<senderVars, lifeVars, tableVars, timerVars, csock, ccancel,
                   cJoined, retxThreadList, whdr, wmeta, resp, aloneVars>>

\* StartNewRetxThread, cancellation disabled: pthread_create starts the
\* thread, or fails and the socket is removed from the list and closed
CoorSpawn ==
    /\ ~crashed
    /\ cpc = "spawn"
    /\ \/ /\ wpc' = [wpc EXCEPT ![csock] = "parse"]
          /\ wcancel' = [wcancel EXCEPT ![csock] = FALSE]
          /\ cpc' = "register"
          /\ UNCHANGED <<connSockList, openSocks>>
       \/ /\ connSockList' = connSockList \ {csock}
          /\ openSocks' = openSocks \ {csock}
          /\ cpc' = "accept"
          /\ UNCHANGED <<wpc, wcancel>>
    /\ UNCHANGED <<senderVars, lifeVars, tableVars, timerVars, csock, ccancel,
                   cJoined, retxThreadList, whdr, wmeta, resp, aloneVars>>

\* StartNewRetxThread: retxThreadList.add(t)
CoorRegister ==
    /\ ~crashed
    /\ cpc = "register"
    /\ retxThreadList' = retxThreadList \cup {csock}
    /\ cpc' = "accept"
    /\ UNCHANGED <<senderVars, lifeVars, tableVars, timerVars, csock, ccancel,
                   cJoined, connSockList, openSocks, workerVars, aloneVars>>

(***************************************************************************)
(* The retransmission threads.                                             *)
(***************************************************************************)
\* a variant for comparison: rejRetxReq that does not echo the prodindex of the request
RejFrameNoEcho(prodindex) ==
    Frame(htonl(0), htonl(0), htons(0), htons(VCMTP_RETX_REJ), <<>>)

\* rejRetxReq: seqnum and payloadlen are set to a plain 0, which reads the
\* same in either byte order
RejFrame(prodindex) ==
    Frame(htonl(prodindex), htonl(0), htons(0), htons(VCMTP_RETX_REJ), <<>>)

\* retransmit: the locals when the loop is entered
RetxEnter(prodLength, seqnum, payloadlen) ==
    LET out == MIN(prodLength, (seqnum + payloadlen) % UINT32_MOD)
        start == (seqnum \div VCMTP_DATA_LEN) * VCMTP_DATA_LEN
    IN  [start |-> start, payLen |-> VCMTP_DATA_LEN,
         nbytes |-> (out - start) % UINT32_MOD, frames |-> <<>>]

\* retransmit: one iteration of the loop; start is not advanced
RetxIter(prodindex, l) ==
    LET payLen == IF l.payLen > l.nbytes THEN l.nbytes ELSE l.payLen
    IN  [start |-> l.start, payLen |-> payLen,
         nbytes |-> (l.nbytes - payLen) % UINT32_MOD,
         frames |-> Append(l.frames,
                       Frame(htonl(prodindex), htonl(l.start), htons(payLen),
                             htons(VCMTP_RETX_DATA), DataBytes(l.start, payLen)))]

RECURSIVE RetxLoop(_, _)
RetxLoop(prodindex, l) ==
    IF 0 < l.nbytes THEN RetxLoop(prodindex, RetxIter(prodindex, l)) ELSE l.frames

\* vcmtpSendv3::retransmit: the frames it gives to TcpSend::send
Retransmit(recvheader, retxMeta) ==
    IF 0 < recvheader.payloadlen
    THEN RetxLoop(recvheader.prodindex,
                  RetxEnter(retxMeta.prodLength, recvheader.seqnum,
                            recvheader.payloadlen))
    ELSE <<>>

\* vcmtpSendv3::retransBOP: metadata is the memory behind retxMeta->metadata,
\* the pointer the application passed to sendProduct
RetransBOP(recvheader, retxMeta, metadata) ==
    <<Frame(htonl(recvheader.prodindex), htonl(0),
            htons(retxMeta.metaSize + (VCMTP_DATA_LEN - AVAIL_BOP_LEN)),
            htons(VCMTP_RETX_BOP),
            <<htonl(retxMeta.prodLength), htons(retxMeta.metaSize)>>
                \o MetaBytes(metadata, retxMeta.metaSize))>>

\* vcmtpSendv3::retransEOP
RetransEOP(recvheader) ==
    <<Frame(htonl(recvheader.prodindex), htonl(0), htons(0),
            htons(VCMTP_RETX_EOP), <<>>)>>

\* handleRetxReq
HandleRetxReq(recvheader, retxMeta) ==
    IF retxMeta.present THEN Retransmit(recvheader, retxMeta)
    ELSE <<RejFrame(recvheader.prodindex)>>

\* handleBopReq
HandleBopReq(recvheader, retxMeta, metadata) ==
    IF retxMeta.present THEN RetransBOP(recvheader, retxMeta, metadata)
    ELSE <<RejFrame(recvheader.prodindex)>>

\* handleEopReq
HandleEopReq(recvheader, retxMeta) ==
    IF retxMeta.present THEN RetransEOP(recvheader)
    ELSE <<RejFrame(recvheader.prodindex)>>

\* the frames RunRetxThread's dispatch sends for a header
Response(recvheader, retxMeta) ==
    CASE recvheader.flags = VCMTP_RETX_REQ -> HandleRetxReq(recvheader, retxMeta)
      [] recvheader.flags = VCMTP_BOP_REQ ->
            HandleBopReq(recvheader, retxMeta, AppMetadata)
      [] recvheader.flags = VCMTP_EOP_REQ -> HandleEopReq(recvheader, retxMeta)
      [] OTHER -> <<>>

ReqFlags == {VCMTP_RETX_REQ, VCMTP_RETX_END, VCMTP_BOP_REQ, VCMTP_EOP_REQ}

\* the headers a receiver sends: a RETX_REQ asks for one block's length of
\* bytes from offset 1, which lies across two blocks
Headers ==
    {[prodindex |-> p,
      seqnum |-> IF f = VCMTP_RETX_REQ THEN 1 ELSE 0,
      payloadlen |-> IF f = VCMTP_RETX_REQ THEN VCMTP_DATA_LEN ELSE 0,
      flags |-> f] : p \in ProdIdx, f \in ReqFlags}

\* RunRetxThread: parseHeader() returns the next header of the connection
WorkerParse(c, h) ==
    /\ ~crashed
    /\ wpc[c] = "parse" /\ ~wcancel[c]
    /\ whdr' = [whdr EXCEPT ![c] = h]
    /\ resp' = [resp EXCEPT ![c] = <<>>]
    /\ wpc' = [wpc EXCEPT ![c] = "lookup"]
    /\ UNCHANGED <<senderVars, lifeVars, tableVars, timerVars, coorVars,
                   sockVars, wmeta, wcancel, aloneVars>>

\* the pending cancellation is acted on in parseHeader()'s read: the thread
\* ends there, and the handler of StartRetxThread does not run
WorkerCancelled(c) ==
    /\ ~crashed
    /\ wpc[c] = "parse" /\ wcancel[c]
    /\ wpc' = [wpc EXCEPT ![c] = "cancelled"]
    /\ whdr' = [whdr EXCEPT ![c] = NoHdr]
    /\ wmeta' = [wmeta EXCEPT ![c] = NoEntry]
    /\ resp' = [resp EXCEPT ![c] = <<>>]
    /\ UNCHANGED <<senderVars, lifeVars, tableVars, timerVars, coorVars,
                   sockVars, wcancel, aloneVars>>

\* parseHeader() fails: StartRetxThread's handler removes the socket from
\* the list, closes it, removes the thread from retxThreadList and exits
WorkerExit(c) ==
    /\ ~crashed
    /\ wpc[c] = "parse" /\ ~wcancel[c]
    /\ connSockList' = connSockList \ {c}
    /\ openSocks' = openSocks \ {c}
    /\ retxThreadList' = retxThreadList \ {c}
    /\ wpc' = [wpc EXCEPT ![c] = "none"]
    /\ whdr' = [whdr EXCEPT ![c] = NoHdr]
    /\ wmeta' = [wmeta EXCEPT ![c] = NoEntry]
    /\ resp' = [resp EXCEPT ![c] = <<>>]
    /\ UNCHANGED <<senderVars, lifeVars, tableVars, timerVars, coorVars,
                   wcancel, aloneVars>>

\* RunRetxThread: sendMeta->getMetadata(recvheader.prodindex)
WorkerLookup(c) ==
    /\ ~crashed
    /\ wpc[c] = "lookup"
    /\ wmeta' = [wmeta EXCEPT ![c] = GetMetadata(indexMetaMap, whdr[c].prodindex)]
    /\ wpc' = [wpc EXCEPT ![c] = "handle"]
    /\ UNCHANGED <<senderVars, lifeVars, tableVars, timerVars, coorVars,
                   sockVars, whdr, wcancel, resp, aloneVars>>

\* a variant for comparison: handleRetxEnd that notifies whatever
\* clearUnfinishedSet returned
HandleRetxEndAlways(map, n, recvheader, retxMeta, sock) ==
    IF retxMeta.present
    THEN [map |-> ClearUnfinishedSet(map, recvheader.prodindex, sock).map,
          notified |-> Notify(n, recvheader.prodindex)]
    ELSE [map |-> map, notified |-> n]

\* handleRetxEnd: the table and the notification count it leaves
HandleRetxEnd(map, n, recvheader, retxMeta, sock) ==
    IF retxMeta.present
    THEN LET r == ClearUnfinishedSet(map, recvheader.prodindex, sock)
         IN  [map |-> r.map,
              notified |-> IF r.removed THEN Notify(n, recvheader.prodindex) ELSE n]
    ELSE [map |-> map, notified |-> n]

\* RunRetxThread: the dispatch on recvheader.flags.  A handler that sends is
\* a cancellation point: with a cancellation pending the thread ends in
\* TcpSend::send with nothing sent.
WorkerHandle(c) ==
    /\ ~crashed
    /\ wpc[c] = "handle"
    /\ LET frames == Response(whdr[c], wmeta[c])
       IN  IF frames # <<>> /\ wcancel[c]
           THEN /\ wpc' = [wpc EXCEPT ![c] = "cancelled"]
                /\ whdr' = [whdr EXCEPT ![c] = NoHdr]
                /\ wmeta' = [wmeta EXCEPT ![c] = NoEntry]
                /\ UNCHANGED <<resp, indexMetaMap, notified>>
           ELSE /\ wpc' = [wpc EXCEPT ![c] = "parse"]
                /\ whdr' = [whdr EXCEPT ![c] = NoHdr]
                /\ wmeta' = [wmeta EXCEPT ![c] = NoEntry]
                /\ resp' = [resp EXCEPT ![c] = frames]
                /\ IF whdr[c].flags = VCMTP_RETX_END
                   THEN LET r == HandleRetxEnd(indexMetaMap, notified, whdr[c],
                                               wmeta[c], c)
                        IN  indexMetaMap' = r.map /\ notified' = r.notified
                   ELSE UNCHANGED <<indexMetaMap, notified>>
    /\ UNCHANGED <<senderVars, lifeVars, everAdded, snapOf, timerVars,
                   coorVars, sockVars, wcancel, aloneVars>>

\* what resp holds in place of a frame for a TcpSend::send() that failed
SendFailed ==
    Frame(htonl(0), htonl(0), htons(0), htons("send failed"), <<>>)

\* the handlers that check the value TcpSend::send() returns and throw when
\* it is negative: retransmit, retransBOP and retransEOP do, rejRetxReq does
\* not
SendIsChecked(frames) == frames[1].flags # htons(VCMTP_RETX_REJ)

\* RunRetxThread: TcpSend::send() fails at the write of frame k + 1 of the
\* response.  A handler that checks the result throws, and StartRetxThread's
\* handler removes the socket from the list, closes it, removes the thread
\* from retxThreadList and exits; after rejRetxReq the loop goes on.
WorkerSendFails(c) ==
    /\ ~crashed
    /\ wpc[c] = "handle" /\ ~wcancel[c]
    /\ LET frames == Response(whdr[c], wmeta[c])
       IN  /\ frames # <<>>
           /\ \E k \in 0..(Len(frames) - 1) :
                 resp' = [resp EXCEPT ![c] = SubSeq(frames, 1, k)
                                                \o <<SendFailed>>]
           /\ IF SendIsChecked(frames)
              THEN /\ connSockList' = connSockList \ {c}
                   /\ openSocks' = openSocks \ {c}
                   /\ retxThreadList' = retxThreadList \ {c}
                   /\ wpc' = [wpc EXCEPT ![c] = "none"]
              ELSE /\ wpc' = [wpc EXCEPT ![c] = "parse"]
                   /\ UNCHANGED sockVars
    /\ whdr' = [whdr EXCEPT ![c] = NoHdr]
    /\ wmeta' = [wmeta EXCEPT ![c] = NoEntry]
    /\ UNCHANGED <<senderVars, lifeVars, tableVars, timerVars, coorVars,
                   wcancel, aloneVars>>

\* the requests whose handler reads the fields of the entry it was given:
\* retransmit and retransBOP; handleEopReq and handleRetxEnd only test the
\* pointer
ReadsEntry(recvheader) == recvheader.flags \in {VCMTP_RETX_REQ, VCMTP_BOP_REQ}

\* the entry getMetadata returned has since been removed from the table and
\* deleted
EntryFreed(retxMeta) ==
    /\ retxMeta.present
    /\ \A p \in ProdIdx :
          ~(indexMetaMap[p].present /\ indexMetaMap[p].id = retxMeta.id)

\* retransmit or retransBOP reads an entry that was deleted after the lookup.
\* The read is undefined: it finds the fields as they were (WorkerHandle), or
\* the process dies, or it finds the fields of an entry allocated since in
\* the same memory.
WorkerReadsFreed(c) ==
    /\ ~crashed
    /\ wpc[c] = "handle" /\ ~wcancel[c]
    /\ ReadsEntry(whdr[c]) /\ EntryFreed(wmeta[c])
    /\ \/ /\ crashed' = TRUE
          /\ UNCHANGED <<wpc, whdr, wmeta, resp>>
       \/ /\ \E p \in ProdIdx :
                /\ indexMetaMap[p].present
                /\ resp' = [resp EXCEPT ![c] = Response(whdr[c], indexMetaMap[p])]
          /\ wpc' = [wpc EXCEPT ![c] = "parse"]
          /\ whdr' = [whdr EXCEPT ![c] = NoHdr]
          /\ wmeta' = [wmeta EXCEPT ![c] = NoEntry]
          /\ UNCHANGED crashed
    /\ UNCHANGED <<senderVars, started, appStopped, except, tableVars,
                   timerVars, coorVars, sockVars, wcancel, aloneVars>>

(***************************************************************************)
(* The sender: all threads together.                                       *)
(***************************************************************************)
Next ==
    \/ Start
    \/ \E a \in CallArgs : SendProductCall(a[1], a[2], a[3], a[4])
    \/ AddRetxMetadata
    \/ SendBOPMessage
    \/ SendDataBlock
    \/ SendEOPMessage
    \/ PushAndReturn
    \/ SenderTouchesFreed
    \/ TaskExit
    \/ AppStop
    \/ StopSignal
    \/ StopJoin
    \/ Tick
    \/ TimerPop
    \/ TimerDisabled
    \/ TimerRemove
    \/ TimerFails
    \/ TimerStopSignal
    \/ TimerStopJoin
    \/ CoorFails
    \/ CoorStopSignal
    \/ CoorStopJoin
    \/ \E c \in Conns : CoorAccept(c)
    \/ CoorCancelled
    \/ CoorSpawn
    \/ CoorRegister
    \/ \E c \in Conns : \E h \in Headers : WorkerParse(c, h)
    \/ \E c \in Conns : WorkerCancelled(c)
    \/ \E c \in Conns : WorkerExit(c)
    \/ \E c \in Conns : WorkerLookup(c)
    \/ \E c \in Conns : WorkerHandle(c)
    \/ \E c \in Conns : WorkerSendFails(c)
    \/ \E c \in Conns : WorkerReadsFreed(c)

Spec == Init /\ [][Next]_vars

(***************************************************************************)
(* The threads are scheduled and time passes: every step a thread of the   *)
(* sender can take on its own is eventually taken.  The application's      *)
(* calls and the receivers' messages are not forced.                       *)
(***************************************************************************)
Fairness ==
    /\ WF_vars(Tick)
    /\ WF_vars(TimerPop) /\ WF_vars(TimerRemove) /\ WF_vars(TimerDisabled)
    /\ WF_vars(TimerStopSignal) /\ WF_vars(TimerStopJoin)
    /\ WF_vars(CoorSpawn) /\ WF_vars(CoorRegister) /\ WF_vars(CoorCancelled)
    /\ WF_vars(CoorStopSignal) /\ WF_vars(CoorStopJoin)
    /\ WF_vars(TaskExit) /\ WF_vars(StopSignal) /\ WF_vars(StopJoin)
    /\ \A c \in Conns : WF_vars(WorkerLookup(c)) /\ WF_vars(WorkerHandle(c))
                         /\ WF_vars(WorkerCancelled(c))

FairSpec == Init /\ [][Next]_vars /\ Fairness

(***************************************************************************)
(* retransmit() on its own, one loop iteration per step, for every product *)
(* length, seqnum and payloadlen within the bounds.                        *)
(***************************************************************************)
MaxProdLen == 6

NoLocals == [start |-> 0, payLen |-> 0, nbytes |-> 0, frames |-> <<>>]

RetxInit ==
    /\ MainInit
    /\ rx \in {[pc |-> "call", prodLength |-> n, seqnum |-> q, payloadlen |-> k,
                 l |-> NoLocals] :
                    n \in 0..MaxProdLen, q \in 0..(UINT32_MOD - 1),
                    k \in 0..MaxPayload}
    /\ bq = NoBq /\ tb = NoTb /\ dq = NoDq /\ sd = NoSd

mainVars == <<senderVars, lifeVars, tableVars, timerVars, coorVars, sockVars,
              workerVars>>

\* retransmit is entered: nothing is sent for a payloadlen of 0
RetxCall ==
    /\ rx.pc = "call"
    /\ rx' = IF 0 < rx.payloadlen
             THEN [rx EXCEPT !.pc = "loop",
                             !.l = RetxEnter(rx.prodLength, rx.seqnum, rx.payloadlen)]
             ELSE [rx EXCEPT !.pc = "done"]
    /\ UNCHANGED <<mainVars, bq, tb, dq, sd>>

\* one iteration of retransmit's loop
RetxLoopStep ==
    /\ rx.pc = "loop" /\ 0 < rx.l.nbytes
    /\ rx' = [rx EXCEPT !.l = RetxIter(0, rx.l)]
    /\ UNCHANGED <<mainVars, bq, tb, dq, sd>>

\* the block the next iteration sends lies, in part or whole, outside the
\* product's memory
RetxOutside(prodLength, l) == l.start + MIN(l.payLen, l.nbytes) > prodLength

\* one iteration of retransmit's loop reads outside the product's memory.
\* The read is undefined: whatever bytes are there are sent (RetxLoopStep),
\* or the process dies.
RetxFaults ==
    /\ rx.pc = "loop" /\ 0 < rx.l.nbytes
    /\ RetxOutside(rx.prodLength, rx.l)
    /\ rx' = [rx EXCEPT !.pc = "fault"]
    /\ UNCHANGED <<mainVars, bq, tb, dq, sd>>

\* retransmit's loop ends
RetxReturn ==
    /\ rx.pc = "loop" /\ rx.l.nbytes = 0
    /\ rx' = [rx EXCEPT !.pc = "done"]
    /\ UNCHANGED <<mainVars, bq, tb, dq, sd>>

RetxNext == RetxCall \/ RetxLoopStep \/ RetxFaults \/ RetxReturn

RetxSpec == RetxInit /\ [][RetxNext]_vars

(***************************************************************************)
(* One product with metadata and a BOP_REQ for it on their own: the entry  *)
(* keeps the application's metadata pointer, and the memory behind it is   *)
(* the application's to write once sendProduct has returned.               *)
(***************************************************************************)
\* the bytes the application's metadata buffer can hold
MetaBuffers == [1..AVAIL_BOP_LEN -> {101, 102}]

BopInit ==
    /\ MainInit
    /\ rx = NoRx /\ tb = NoTb /\ dq = NoDq /\ sd = NoSd
    /\ bq \in {[pc |-> "call", index |-> p, dataSize |-> n, metaSize |-> k,
                 buffer |-> b, given |-> <<>>,
                 map |-> [i \in ProdIdx |-> NoEntry],
                 bop |-> <<>>, req |-> NoHdr, out |-> <<>>] :
                    p \in ProdIdx, n \in 1..MaxProdLen, k \in 0..AVAIL_BOP_LEN,
                    b \in MetaBuffers}

\* sendProduct(data, dataSize, buffer, metaSize) up to its BOP: the entry is
\* added, then the BOP is multicast with the bytes the buffer holds
BopSendProduct ==
    /\ bq.pc = "call"
    /\ Validate(PTR, bq.dataSize, PTR, bq.metaSize) = NoErr
    /\ bq' = [bq EXCEPT
                !.pc = "sent",
                !.given = MetaBytes(bq.buffer, bq.metaSize),
                !.map = MapAdd(bq.map, NewRetxMetadata(1, bq.index, bq.dataSize,
                                                       bq.metaSize, {})),
                !.bop = <<BOPFrame(bq.index, bq.dataSize, bq.buffer,
                                   bq.metaSize)>>]
    /\ UNCHANGED <<mainVars, rx, tb, dq, sd>>

\* the application writes other bytes to its metadata buffer after
\* sendProduct has returned
BopAppWrites(b) ==
    /\ bq.pc = "sent"
    /\ b # bq.buffer
    /\ bq' = [bq EXCEPT !.buffer = b]
    /\ UNCHANGED <<mainVars, rx, tb, dq, sd>>

\* a retransmission thread serves a BOP_REQ for prodindex p: getMetadata, then
\* handleBopReq
BopRequest(p) ==
    /\ bq.pc = "sent"
    /\ LET recvheader == [prodindex |-> p, seqnum |-> 0, payloadlen |-> 0,
                          flags |-> VCMTP_BOP_REQ]
       IN  bq' = [bq EXCEPT
                     !.pc = "answered",
                     !.req = recvheader,
                     !.out = HandleBopReq(recvheader, GetMetadata(bq.map, p),
                                          bq.buffer)]
    /\ UNCHANGED <<mainVars, rx, tb, dq, sd>>

BopNext ==
    \/ BopSendProduct
    \/ \E b \in MetaBuffers : BopAppWrites(b)
    \/ \E p \in ProdIdx : BopRequest(p)

BopSpec == BopInit /\ [][BopNext]_vars

(***************************************************************************)
(* The retransmission table on its own: the timer thread's rmRetxMetadata  *)
(* and a retransmission thread's clearUnfinishedSet and getMetadata, each  *)
(* run under the map's lock, in every order, on every table of up to       *)
(* MaxRecv receivers.                                                      *)
(***************************************************************************)
MaxRecv == 2

Receivers == 1..MaxRecv

\* the tables: per prodindex no entry, or an entry with a set of receivers
Tables ==
    {m \in [ProdIdx -> {NoEntry}
                \cup {NewRetxMetadata(1, i, n, 0, u) :
                         i \in ProdIdx, n \in ProdSizes, u \in SUBSET Receivers}] :
        \A i \in ProdIdx : m[i].present => m[i].prodindex = i}

NoCall == [pc |-> "call", ret |-> FALSE, before |-> <<>>, after |-> <<>>,
           got |-> NoEntry]

TableInit ==
    /\ MainInit
    /\ rx = NoRx /\ bq = NoBq /\ dq = NoDq /\ sd = NoSd
    /\ tb \in {[pc |-> "run", map |-> m, first |-> m, lock |-> "free",
                 p |-> p, q |-> q, r |-> r, timer |-> NoCall,
                 worker |-> NoCall] :
                    m \in Tables, p \in ProdIdx, q \in ProdIdx, r \in Receivers}

\* the timer thread enters rmRetxMetadata(p): it takes the lock
TableRemoveLock ==
    /\ tb.pc = "run" /\ tb.timer.pc = "call" /\ tb.lock = "free"
    /\ tb' = [tb EXCEPT !.lock = "timer", !.timer.pc = "locked"]
    /\ UNCHANGED <<mainVars, rx, bq, dq, sd>>

\* rmRetxMetadata(p) under the lock, up to its return
TableRemove ==
    /\ tb.pc = "run" /\ tb.timer.pc = "locked"
    /\ LET res == RmRetxMetadata(tb.map, tb.p)
       IN  tb' = [tb EXCEPT !.map = res.map, !.lock = "free",
                            !.timer = [pc |-> "done", ret |-> res.removed,
                                       before |-> tb.map, after |-> res.map,
                                       got |-> NoEntry]]
    /\ UNCHANGED <<mainVars, rx, bq, dq, sd>>

\* a retransmission thread enters clearUnfinishedSet(q, r): it takes the lock
TableClearLock ==
    /\ tb.pc = "run" /\ tb.worker.pc = "call" /\ tb.lock = "free"
    /\ tb' = [tb EXCEPT !.lock = "worker", !.worker.pc = "locked"]
    /\ UNCHANGED <<mainVars, rx, bq, dq, sd>>

\* clearUnfinishedSet(q, r) under the lock, up to its return
TableClear ==
    /\ tb.pc = "run" /\ tb.worker.pc = "locked"
    /\ LET res == ClearUnfinishedSet(tb.map, tb.q, tb.r)
       IN  tb' = [tb EXCEPT !.map = res.map, !.lock = "free",
                            !.worker = [pc |-> "done", ret |-> res.removed,
                                        before |-> tb.map, after |-> res.map,
                                        got |-> NoEntry]]
    /\ UNCHANGED <<mainVars, rx, bq, dq, sd>>

\* the retransmission thread then calls getMetadata(q)
TableGet ==
    /\ tb.pc = "run" /\ tb.worker.pc = "done" /\ tb.lock = "free"
    /\ tb' = [tb EXCEPT !.worker.pc = "got",
                        !.worker.got = GetMetadata(tb.map, tb.q)]
    /\ UNCHANGED <<mainVars, rx, bq, dq, sd>>

TableNext ==
    \/ TableRemoveLock
    \/ TableRemove
    \/ TableClearLock
    \/ TableClear
    \/ TableGet

TableSpec == TableInit /\ [][TableNext]_vars

(***************************************************************************)
(* The delay queue on its own: up to MaxPush pushes with periods of up to  *)
(* MaxDelay ticks, pops and the passing of time in every order, with a     *)
(* clock, the wake instant of every push and the pops made so far.         *)
(***************************************************************************)
MaxPush == 4

DelayInit ==
    /\ MainInit
    /\ rx = NoRx /\ bq = NoBq /\ tb = NoTb /\ sd = NoSd
    /\ dq = [pc |-> "run", q |-> <<>>, now |-> 0, wake |-> <<>>, popped |-> <<>>]

\* sendProduct's timerDelayQ.push(prodIndex, period): the indexes are pushed
\* in increasing order, entry i + 1 of wake is the wake instant of index i
DelayPush ==
    /\ dq.pc = "run"
    /\ Len(dq.wake) < MaxPush
    /\ \E period \in 0..MaxDelay :
          dq' = [dq EXCEPT !.q = QueuePush(@, Len(dq.wake), period),
                           !.wake = Append(@, dq.now + period)]
    /\ UNCHANGED <<mainVars, rx, bq, tb, sd>>

\* time passes by one tick
DelayTick ==
    /\ dq.pc = "run"
    /\ \E i \in 1..Len(dq.q) : dq.q[i].rem > 0
    /\ dq' = [dq EXCEPT !.q = Elapse(@), !.now = @ + 1]
    /\ UNCHANGED <<mainVars, rx, bq, tb, sd>>

\* timerThread's timerDelayQ.pop() returns
DelayPop ==
    /\ dq.pc = "run"
    /\ QueueReady(dq.q)
    /\ dq' = [dq EXCEPT !.q = Tail(@),
                        !.popped = Append(@, [index |-> Head(dq.q).index,
                                              at |-> dq.now])]
    /\ UNCHANGED <<mainVars, rx, bq, tb, sd>>

DelayNext ==
    \/ DelayPush
    \/ DelayTick
    \/ DelayPop

DelaySpec == DelayInit /\ [][DelayNext]_vars

(***************************************************************************)
(* sendData on its own: one call for every product index and every size   *)
(* that sendProduct accepts, the multicast of a block succeeding or        *)
(* failing.                                                                *)
(***************************************************************************)
DataInit ==
    /\ MainInit
    /\ rx = NoRx /\ bq = NoBq /\ tb = NoTb /\ dq = NoDq
    /\ sd \in {[pc |-> "loop", index |-> p, size |-> n,
                 l |-> [dataSize |-> n, data |-> 0, seqNum |-> 0],
                 out |-> <<>>] : p \in ProdIdx, n \in 0..(SizeTooBig - 1)}

\* one iteration of the loop: the block is multicast
DataBlock ==
    /\ sd.pc = "loop" /\ sd.l.dataSize > 0
    /\ LET payloadlen == PayloadLen(sd.l.dataSize)
       IN  sd' = [sd EXCEPT
                    !.out = Append(@, MemDataFrame(sd.index, sd.l.seqNum,
                                                   sd.l.data, payloadlen)),
                    !.l = DataLoopAfter(@, payloadlen)]
    /\ UNCHANGED <<mainVars, rx, bq, tb, dq>>

\* one iteration of the loop: UdpSend::SendData fails and sendData throws
DataFails ==
    /\ sd.pc = "loop" /\ sd.l.dataSize > 0
    /\ sd' = [sd EXCEPT !.pc = "thrown"]
    /\ UNCHANGED <<mainVars, rx, bq, tb, dq>>

\* the loop ends and sendData returns
DataReturn ==
    /\ sd.pc = "loop" /\ ~(sd.l.dataSize > 0)
    /\ sd' = [sd EXCEPT !.pc = "returned"]
    /\ UNCHANGED <<mainVars, rx, bq, tb, dq>>

DataNext ==
    \/ DataBlock
    \/ DataFails
    \/ DataReturn

DataSpec == DataInit /\ [][DataNext]_vars

(***************************************************************************)
(* Properties                                                              *)
(***************************************************************************)
Requests == {VCMTP_RETX_REQ, VCMTP_BOP_REQ, VCMTP_EOP_REQ}

\* no TcpSend::send() of the response failed
SendOk(frames) == \A i \in 1..Len(frames) : frames[i] # SendFailed

\* C1: a product index is notified at most once; no index is the subject of
\* two notify_of_eop calls, whichever of the timer and the last RETX_END
\* removes its entry.
C1_NotifiedAtMostOnce == \A p \in ProdIdx : notified[p] <= 1

\* C2: when sendProduct has returned, the value it returned is the counter's
\* value at entry and the counter is one more; when it has raised, the
\* counter has the value it had at entry.
C2_CounterContract ==
    (spc = "idle" /\ ncalls > 0 /\ ~appStopped) =>
        IF returned # NoVal
        THEN returned = entryIndex /\ prodIndex = entryIndex + 1
        ELSE raised # NoErr /\ prodIndex = entryIndex

\* a call that returned 0 has been followed by a call that raised
C2_Witness ==
    /\ spc = "idle" /\ ncalls = 2 /\ ~appStopped /\ ~crashed
    /\ returned = NoVal /\ raised # NoErr
    /\ entryIndex = 1 /\ prodIndex = 1

\* C3: sendProduct adds an entry only under a prodindex that was never added
\* before: the table receives no second add for a key already used.
C3_AddsFreshKey == (spc = "add") => (prodIndex \notin everAdded)

\* C4: a worker that handles a RETX_REQ, BOP_REQ or EOP_REQ whose prodindex
\* had no entry at lookup writes exactly one frame, a RETX_REJ with that
\* prodindex, seqnum 0, payloadlen 0 and no payload, and changes neither the
\* table nor the notifications (the write itself succeeding).
C4_AbsentIsRejected ==
    [][\A c \in Conns :
          (/\ wpc[c] = "handle" /\ wpc'[c] = "parse"
           /\ whdr[c].flags \in Requests
           /\ ~wmeta[c].present
           /\ SendOk(resp'[c]))
          => /\ resp'[c] = <<Frame(htonl(whdr[c].prodindex), htonl(0), htons(0),
                                   htons(VCMTP_RETX_REJ), <<>>)>>
             /\ indexMetaMap' = indexMetaMap
             /\ notified' = notified]_vars

\* a RETX_REJ has been written for product 1 while product 0 has an entry
C4_Witness ==
    \E c \in Conns :
        /\ wpc[c] = "parse"
        /\ resp[c] = <<Frame(htonl(1), htonl(0), htons(0), htons(VCMTP_RETX_REJ),
                             <<>>)>>
        /\ indexMetaMap[0].present /\ ~indexMetaMap[1].present
RECURSIVE ConcatBodies(_)
ConcatBodies(frames) ==
    IF frames = <<>> THEN <<>>
    ELSE Head(frames).body \o ConcatBodies(Tail(frames))

\* C5: for every request with payloadlen > 0 and seqnum + payloadlen within
\* the product, the bodies of the RETX_DATA frames retransmit emits,
\* concatenated, are the product's bytes from the start of the block holding
\* seqnum up to seqnum + payloadlen, also when the request spans blocks.
C5_BodiesCoverRequest ==
    (/\ rx.pc = "done" /\ 0 < rx.payloadlen
     /\ rx.seqnum + rx.payloadlen <= rx.prodLength)
    => LET start == (rx.seqnum \div VCMTP_DATA_LEN) * VCMTP_DATA_LEN
       IN  ConcatBodies(rx.l.frames)
               = DataBytes(start, rx.seqnum + rx.payloadlen - start)

NumBlocks(size) == (size + VCMTP_DATA_LEN - 1) \div VCMTP_DATA_LEN

\* C7: the frames a successful sendProduct put on the multicast channel are
\* one BOP, the MEM_DATA frames of all blocks in order, and one EOP, all with
\* the returned prodindex; and over the whole channel the prodindex never
\* decreases.
C7_WireOrder ==
    /\ (spc = "idle" /\ returned # NoVal) =>
          LET seg == SubSeq(mcastOut, wireStart + 1, Len(mcastOut))
              n == NumBlocks(sargs.dataSize)
          IN  /\ Len(seg) = n + 2
              /\ \A i \in 1..(n + 2) : seg[i].prodindex = htonl(returned)
              /\ seg[1].flags = htons(VCMTP_BOP)
              /\ seg[n + 2].flags = htons(VCMTP_EOP)
              /\ \A k \in 1..n :
                    LET off == (k - 1) * VCMTP_DATA_LEN
                    IN  /\ seg[k + 1].flags = htons(VCMTP_MEM_DATA)
                        /\ seg[k + 1].seqnum = htonl(off)
                        /\ seg[k + 1].body
                             = DataBytes(off, MIN(VCMTP_DATA_LEN,
                                                  sargs.dataSize - off))
    /\ \A i, j \in 1..Len(mcastOut) :
          i < j => mcastOut[i].prodindex[2] <= mcastOut[j].prodindex[2]

\* two products have been sent one after the other
C7_Witness ==
    /\ spc = "idle" /\ returned = 1
    /\ Len(mcastOut) = 2 * (NumBlocks(sargs.dataSize) + 2)
    /\ mcastOut[1].prodindex = htonl(0)
    /\ mcastOut[Len(mcastOut)].prodindex = htonl(1)

\* the sender is being stopped or has been stopped
Stopping == qDisabled \/ spc \in {"taskExit", "stop", "join"} \/ crashed

\* C8: with the threads scheduled fairly, once sendProduct has returned p
\* then, unless the sender is stopped, p's entry is eventually out of the
\* table with the notifier called exactly once for p.
C8_EventuallyNotifiedOnce ==
    \A p \in ProdIdx :
        (spc = "idle" /\ returned = p)
            ~> (Stopping \/ (~indexMetaMap[p].present /\ notified[p] = 1))

\* C9: a request for product p from a connection that was not connected when
\* p's receiver snapshot was taken is answered with one RETX_REJ, also while
\* p's entry is in the table.
C9_LateReceiverRejected ==
    [][\A c \in Conns :
          (/\ wpc[c] = "handle" /\ wpc'[c] = "parse"
           /\ whdr[c].flags \in Requests
           /\ wmeta[c].present
           /\ c \notin snapOf[wmeta[c].id]
           /\ SendOk(resp'[c]))
          => resp'[c] = <<Frame(htonl(whdr[c].prodindex), htonl(0), htons(0),
                                htons(VCMTP_RETX_REJ), <<>>)>>]_vars

\* C10: a sendProduct that failed raises to its caller the error of its own
\* failing step, also when the slot already held an earlier, different error.
C10_RaisesOwnError ==
    [][(spc = "join" /\ spc' = "idle" /\ serr # NoErr) => raised' = serr]_vars
\* C11: a timer or coordinator thread that failed runs the stop sequence to
\* its end and then exits, the error staying inside its thread: it neither
\* lets the exception leave its start routine nor stays blocked in Stop.
C11_BackgroundErrorContained ==
    /\ tpc \notin {"escaped", "hung"}
    /\ cpc \notin {"escaped", "hung"}
\* a Stop() called on the application thread has returned
StopReturned == spc = "idle" /\ tJoined /\ cJoined

\* no thread of the sender is running
AllEnded ==
    /\ tpc = "done" /\ cpc = "done"
    /\ \A c \in Conns : wpc[c] \in {"none", "cancelled"}

\* C12: when Stop() returns, the timer thread, the coordinator and every
\* retransmission thread have ended, and no retransmission thread handles a
\* request after Stop() has returned.
C12_ThreadsEndedAtStop ==
    [][/\ (spc = "join" /\ spc' = "idle" /\ ~crashed') => AllEnded'
       /\ StopReturned =>
             \A c \in Conns : ~(wpc[c] = "handle" /\ wpc'[c] = "parse")]_vars

\* C13: when shutdown() of the thread list has run, every thread of the list
\* has a cancellation pending and the list is empty.
C13_ShutdownEmptiesList ==
    [][(spc = "stop" /\ spc' = "join")
          => /\ \A c \in retxThreadList : wcancel'[c]
             /\ retxThreadList' = {}]_vars

\* C14: Stop() cancels and joins no thread that an earlier Stop() already
\* cancelled or joined.
C14_StopActsOnce ==
    [][(spc = "stop" /\ spc' = "join")
          => /\ ~tJoined /\ ~cJoined /\ ~ccancel
             /\ \A c \in retxThreadList : ~wcancel[c]]_vars

\* C15: with the threads scheduled fairly, an entry that was added by a
\* sendProduct call which then failed in a later step does not stay in the
\* table for ever (a call made after the sender was stopped, and a sender
\* whose Stop() crashed or hung, are left aside).
C15_FailedEntryRemoved ==
    \A p \in ProdIdx :
        (spc = "taskExit" /\ serr = IoError /\ entryIndex = p
                          /\ indexMetaMap[p].present /\ ~qDisabled)
            ~> (~indexMetaMap[p].present \/ crashed
                    \/ tpc = "hung" \/ cpc = "hung")

\* the arguments the specification calls invalid
BadArgs(a) ==
    \/ a.data = NULL
    \/ a.dataSize > UINT32_MOD - 1
    \/ a.metadata # NULL /\ a.metaSize > AVAIL_BOP_LEN
    \/ a.metadata = NULL /\ a.metaSize # 0

\* the call in progress has added no entry, sent no frame, pushed nothing on
\* the delay queue and left the counter alone
CallLeftNoTrace ==
    /\ smeta = 0
    /\ Len(mcastOut) = wireStart
    /\ \A i \in 1..Len(timerDelayQ) : timerDelayQ[i].index # entryIndex
    /\ prodIndex = entryIndex

\* a sendProduct call is between its entry and the end of its catch block
InSendProduct ==
    \/ spc \in {"add", "bop", "data", "setTimer", "taskExit"}
    \/ spc \in {"stop", "join"} /\ serr # NoErr

\* the argument checks of sendProduct throw invalid_argument for the invalid
\* arguments and for no others, and a call they reject leaves no trace
ChecksRejectBadArgs ==
    InSendProduct =>
        /\ serr = InvalidArgument <=> BadArgs(sargs)
        /\ BadArgs(sargs) => CallLeftNoTrace

\* C16: sendProduct fails with InvalidArgument exactly when its arguments are
\* invalid, and then no entry was added, no frame was multicast, nothing was
\* pushed on the delay queue and the counter is unchanged.
C16_InvalidArgumentContract ==
    [][/\ (spc = "join" /\ spc' = "idle" /\ serr # NoErr /\ ~crashed')
            => /\ raised' = InvalidArgument <=> BadArgs(sargs)
               /\ BadArgs(sargs) => CallLeftNoTrace
       /\ (spc = "setTimer" /\ spc' = "idle") => ~BadArgs(sargs)]_vars

\* C17: a BOP_REQ for a product that has an entry is answered with exactly
\* one RETX_BOP that echoes the prodindex, has seqnum 0 and
\* payloadlen = metasize + (VCMTP_DATA_LEN - AVAIL_BOP_LEN), and whose body is
\* the entry's prodsize, its metasize and the metasize metadata bytes that
\* were given to sendProduct.
C17_RetxBopCarriesGivenMetadata ==
    (bq.pc = "answered" /\ GetMetadata(bq.map, bq.req.prodindex).present)
        => LET e == GetMetadata(bq.map, bq.req.prodindex)
           IN  bq.out = <<Frame(htonl(bq.req.prodindex), htonl(0),
                                htons(e.metaSize
                                         + (VCMTP_DATA_LEN - AVAIL_BOP_LEN)),
                                htons(VCMTP_RETX_BOP),
                                <<htonl(e.prodLength), htons(e.metaSize)>>
                                    \o bq.given)>>

\* C18: a retransmission thread that handles a RETX_END for product p from
\* connection r sends no frame; if its lookup found no entry it leaves the
\* table and the notifications alone; otherwise it takes r out of p's
\* unfinished set and calls the notifier for p exactly when that removed p's
\* entry from the table.
C18_RetxEndNotifiesIffCleared ==
    [][\A c \in Conns :
          (wpc[c] = "handle" /\ whdr[c].flags = VCMTP_RETX_END
                             /\ wpc'[c] = "parse")
             => LET p == whdr[c].prodindex
                    e == indexMetaMap[p]
                    last == e.present /\ e.unfinReceivers \ {c} = {}
                IN  /\ resp'[c] = <<>>
                    /\ ~wmeta[c].present
                         => /\ indexMetaMap' = indexMetaMap
                            /\ notified' = notified
                    /\ wmeta[c].present
                         => /\ notified' = IF last THEN Notify(notified, p)
                                           ELSE notified
                            /\ \A q \in ProdIdx \ {p} :
                                  indexMetaMap'[q] = indexMetaMap[q]
                            /\ last => ~indexMetaMap'[p].present
                            /\ (e.present /\ ~last)
                                 => /\ indexMetaMap'[p].present
                                    /\ indexMetaMap'[p].unfinReceivers
                                         = e.unfinReceivers \ {c}
                            /\ ~e.present => ~indexMetaMap'[p].present]_vars

\* the one product sent is out of the table and notified once while its
\* element is still on the delay queue: the timer thread has removed nothing,
\* the entry was cleared by a RETX_END
C18_Witness ==
    /\ spc = "idle" /\ returned = 0 /\ prodIndex = 1
    /\ tpc = "pop" /\ Len(timerDelayQ) = 1
    /\ notified[0] = 1 /\ ~indexMetaMap[0].present
    /\ \E c \in Conns : wpc[c] = "parse"

\* C19: rmRetxMetadata(p) returns true exactly when p's entry was in the
\* table when it ran; and when p's unfinished set holds the one receiver r,
\* of rmRetxMetadata(p) and clearUnfinishedSet(p, r) run in either order
\* exactly one returns true.
C19_ExactlyOneRemoves ==
    /\ tb.pc = "run" /\ tb.timer.pc = "done"
          => (tb.timer.ret <=> tb.timer.before[tb.p].present)
    /\ (/\ tb.pc = "run" /\ tb.timer.pc = "done"
        /\ tb.worker.pc \in {"done", "got"}
        /\ tb.p = tb.q
        /\ tb.first[tb.p].present
        /\ tb.first[tb.p].unfinReceivers = {tb.r})
          => (tb.timer.ret <=> ~tb.worker.ret)

\* both calls have run on an entry whose set held the one receiver, the
\* worker's first: clearUnfinishedSet returned true, rmRetxMetadata false
C19_Witness ==
    /\ tb.pc = "run" /\ tb.timer.pc = "done" /\ tb.worker.pc = "done"
    /\ tb.p = tb.q
    /\ tb.first[tb.p].present /\ tb.first[tb.p].unfinReceivers = {tb.r}
    /\ tb.worker.ret /\ ~tb.timer.ret

\* C20: clearUnfinishedSet(q, r) takes r out of q's unfinished set; it
\* returns true exactly when q had an entry and the set is empty after that,
\* and then the entry is out of the table and a following getMetadata(q)
\* finds nothing; when other receivers remain it returns false and the entry
\* stays with the remaining set; when q has no entry it returns false and
\* changes nothing.
C20_ClearUnfinishedContract ==
    (tb.pc = "run" /\ tb.worker.pc \in {"done", "got"})
        => LET e == tb.worker.before[tb.q]
               a == tb.worker.after[tb.q]
               emptied == e.present /\ e.unfinReceivers \ {tb.r} = {}
           IN  /\ tb.worker.ret <=> emptied
               /\ emptied => ~a.present
               /\ (e.present /\ ~emptied)
                    => /\ a.present
                       /\ a.unfinReceivers = e.unfinReceivers \ {tb.r}
               /\ ~e.present => ~a.present
               /\ \A i \in ProdIdx \ {tb.q} :
                     tb.worker.after[i] = tb.worker.before[i]
               /\ (tb.worker.pc = "got" /\ tb.worker.ret)
                    => ~tb.worker.got.present

\* clearUnfinishedSet returned false on an entry with two receivers, and the
\* getMetadata that followed found the entry with the other receiver
C20_Witness ==
    /\ tb.pc = "run" /\ tb.worker.pc = "got" /\ tb.timer.pc = "call"
    /\ ~tb.worker.ret
    /\ tb.worker.before[tb.q].present
    /\ tb.worker.before[tb.q].unfinReceivers = Receivers
    /\ tb.worker.got.present
    /\ tb.worker.got.unfinReceivers = Receivers \ {tb.r}

\* C21: in every iteration of the timer loop the prodindex handed to
\* rmRetxMetadata and to the notifier is the prodindex the pop before it
\* returned, and the notifier is called only when the remove returned true.
C21_TimerUsesPoppedIndex ==
    [][/\ (tpc = "pop" /\ tpc' = "remove")
            => tprodindex' = Head(timerDelayQ).index
       /\ (tpc = "remove" /\ tpc' # "remove")
            => /\ \A p \in ProdIdx \ {tprodindex} :
                     /\ indexMetaMap'[p] = indexMetaMap[p]
                     /\ notified'[p] = notified[p]
               /\ notified'[tprodindex] # notified[tprodindex]
                     => indexMetaMap[tprodindex].present]_vars

\* C22: for a RETX_REQ with payloadlen > 0 that starts inside the product,
\* the k-th RETX_DATA frame (k = 0, 1, ...) has seqnum
\* aligned_start + k * VCMTP_DATA_LEN and a body that starts at that offset of
\* the product; every frame but the last has payloadlen VCMTP_DATA_LEN, and
\* there are ceil((min(prodsize, seqnum + payloadlen) - aligned_start) /
\* VCMTP_DATA_LEN) frames.
C22_KthFrameAtKthBlock ==
    (rx.pc = "done" /\ 0 < rx.payloadlen /\ rx.seqnum < rx.prodLength)
        => LET start == (rx.seqnum \div VCMTP_DATA_LEN) * VCMTP_DATA_LEN
               out == MIN(rx.prodLength, rx.seqnum + rx.payloadlen)
               n == NumBlocks(out - start)
               f == rx.l.frames
           IN  /\ Len(f) = n
               /\ \A k \in 0..(n - 1) :
                     LET off == start + k * VCMTP_DATA_LEN
                         len == IF k < n - 1 THEN VCMTP_DATA_LEN ELSE out - off
                     IN  /\ f[k + 1].flags = htons(VCMTP_RETX_DATA)
                         /\ f[k + 1].seqnum = htonl(off)
                         /\ f[k + 1].payloadlen = htons(len)
                         /\ f[k + 1].body = DataBytes(off, len)

\* the step is the timer thread's remove of p
TimerRemoves(p) == tpc = "remove" /\ tpc' # "remove" /\ tprodindex = p

\* the step is a retransmission thread handling the RETX_END for p of the
\* last receiver of p's unfinished set
LastEndHandled(p) ==
    \E c \in Conns :
        /\ wpc[c] = "handle" /\ wpc'[c] = "parse"
        /\ whdr[c].flags = VCMTP_RETX_END /\ whdr[c].prodindex = p
        /\ indexMetaMap[p].unfinReceivers \ {c} = {}

\* C23: a product that sendProduct has inserted has an entry exactly as long
\* as the timer has not removed it and not every receiver of its snapshot has
\* sent RETX_END: an entry in the table has a receiver left in its set (also
\* when the snapshot was empty), an entry leaves the table only by the
\* timer's remove or by the last receiver's RETX_END, and a product that has
\* left the table has no entry again.
C23_EntryIffUnfinished ==
    /\ [](\A p \in ProdIdx :
             indexMetaMap[p].present => indexMetaMap[p].unfinReceivers # {})
    /\ [][\A p \in ProdIdx :
             /\ (indexMetaMap[p].present /\ ~indexMetaMap'[p].present)
                    => (TimerRemoves(p) \/ LastEndHandled(p))
             /\ (p \in everAdded /\ ~indexMetaMap[p].present)
                    => ~indexMetaMap'[p].present]_vars

\* C24: the unfinished set of an entry is, when the entry is inserted, the
\* set of connections connected at that moment, and from then on it only
\* loses members: no step adds a receiver to an entry that is in the table.
C24_UnfinishedSetShrinks ==
    [][/\ (spc = "add" /\ spc' # "add")
            => /\ indexMetaMap'[prodIndex].present
               /\ indexMetaMap'[prodIndex].unfinReceivers = connSockList
       /\ \A p \in ProdIdx :
             (/\ indexMetaMap[p].present /\ indexMetaMap'[p].present
              /\ indexMetaMap'[p].id = indexMetaMap[p].id)
                => indexMetaMap'[p].unfinReceivers
                       \subseteq indexMetaMap[p].unfinReceivers]_vars

\* a receiver has connected after product 0 was inserted with an empty
\* snapshot and has a request for it handled: the entry's set is still empty
C24_Witness ==
    /\ indexMetaMap[0].present /\ indexMetaMap[0].unfinReceivers = {}
    /\ connSockList = Conns
    /\ \E c \in Conns : wpc[c] = "handle" /\ whdr[c].prodindex = 0

\* the retransmission thread of c has ended and left nothing behind
WorkerCleanedUp(c) ==
    /\ wpc[c] = "none"
    /\ c \notin connSockList /\ c \notin openSocks /\ c \notin retxThreadList

\* C25: a retransmission thread whose header read fails, or one of whose
\* response writes fails, ends after taking its socket out of the list of
\* connections, closing it and taking itself out of the thread list; the
\* exception slot is left as it is, Stop is not run, and the other threads
\* are where they were.
C25_WorkerFailureIsLocal ==
    [][\A c \in Conns :
          LET readFails == wpc[c] = "parse" /\ ~wcancel[c] /\ wpc'[c] = "none"
              writeFails == /\ wpc[c] = "handle" /\ wpc'[c] # "handle"
                            /\ ~SendOk(resp'[c])
          IN  (readFails \/ writeFails)
                 => /\ WorkerCleanedUp(c)'
                    /\ UNCHANGED <<except, qDisabled, ccancel, wcancel, spc,
                                   tpc, cpc>>
                    /\ \A d \in Conns \ {c} : wpc'[d] = wpc[d]]_vars

\* C26: a retransmission thread that ends by the cancellation of
\* retxThreadList.shutdown() has, when it ends, its socket out of the
\* connected-socket list and closed and its handle out of the thread list;
\* once Stop() has returned no cancelled thread's socket is in the list.
C26_CancelledWorkerCleansUp ==
    /\ [][\A c \in Conns :
             (wpc[c] # "cancelled" /\ wpc'[c] = "cancelled")
                => /\ c \notin connSockList'
                   /\ c \notin openSocks'
                   /\ c \notin retxThreadList']_vars
    /\ [](StopReturned
            => \A c \in Conns : wpc[c] = "cancelled" => c \notin connSockList)

\* C27: the coordinator, once accept has returned a socket, does not end
\* before StartNewRetxThread has returned, also with its cancellation
\* pending; when StartNewRetxThread returns either a thread was started for
\* the socket and its handle is in the thread list, or pthread_create failed
\* and the socket is out of the connected-socket list and closed; and a
\* socket is open only if the coordinator is about to start its thread or a
\* thread was started for it.
C27_AcceptedSocketGetsWorker ==
    /\ [][/\ cpc = "spawn" => cpc' \in {"spawn", "register", "accept"}
          /\ cpc = "register" => cpc' \in {"register", "accept"}
          /\ (cpc = "spawn" /\ cpc' = "register") => wpc'[csock] = "parse"
          /\ (cpc = "register" /\ cpc' = "accept")
                => csock \in retxThreadList'
          /\ (cpc = "spawn" /\ cpc' = "accept")
                => /\ csock \notin connSockList' /\ csock \notin openSocks'
                   /\ wpc'[csock] = "none"
                   /\ retxThreadList' = retxThreadList]_vars
    /\ [](\A c \in openSocks :
             wpc[c] # "none" \/ (cpc = "spawn" /\ csock = c))

\* the coordinator's cancellation is pending while it registers the thread
\* it has started for the socket it accepted
C27_Witness ==
    /\ cpc = "register" /\ ccancel /\ ~crashed
    /\ wpc[csock] = "parse" /\ csock \in openSocks

\* C28: once the exception slot is set no step changes it, whichever thread
\* calls taskExit afterwards, and a Stop() that returns to the application
\* while the slot is set raises the slot's exception, the first one stored.
C28_ErrorSlotSetOnce ==
    [][/\ except # NoErr => except' = except
       /\ (spc = "join" /\ spc' = "idle" /\ except # NoErr)
             => raised' = except]_vars

\* the coordinator has failed and stored its exception; a sendProduct call
\* that failed afterwards has run taskExit and its Stop() has raised the
\* coordinator's exception
C28_Witness ==
    /\ except = CoorError /\ raised = CoorError
    /\ StopReturned /\ ~appStopped /\ ~crashed

\* C29: with the threads scheduled fairly, once Stop has disabled the delay
\* queue the timer thread ends (or the process has), whether it was waiting
\* in pop or was between two pops; the pop that reports the disabled queue
\* ends the thread with the exception slot, the table and the notifications
\* as they were, and an ended timer thread stays ended.
C29_TimerEndsOnDisable ==
    /\ (qDisabled /\ tpc \in {"pop", "remove"}) ~> (tpc = "done" \/ crashed)
    /\ [][(tpc = "pop" /\ qDisabled /\ tpc' # "pop")
             => /\ tpc' = "done"
                /\ except' = except
                /\ indexMetaMap' = indexMetaMap
                /\ notified' = notified]_vars
    /\ [][tpc = "done" => tpc' = "done"]_vars

\* C30: a pop of the delay queue returns an index no earlier than its wake
\* instant (the instant of its push plus its delay); the index it returns
\* has the smallest wake instant of the entries then in the queue; and no
\* index is returned twice.
C30_PopsInWakeOrder ==
    /\ [](dq.pc = "run"
            => \A k \in 1..Len(dq.popped) :
                  /\ dq.popped[k].at >= dq.wake[dq.popped[k].index + 1]
                  /\ \A j \in 1..(k - 1) :
                        dq.popped[j].index # dq.popped[k].index)
    /\ [][(dq.pc = "run" /\ Len(dq'.popped) > Len(dq.popped))
             => LET e == dq'.popped[Len(dq'.popped)]
                IN  \A i \in 1..Len(dq.q) :
                       dq.wake[e.index + 1] <= dq.wake[dq.q[i].index + 1]]_vars

\* index 1, pushed second with the shorter delay, has been popped while
\* index 0, pushed first, is still in the queue
C30_Witness ==
    /\ dq.pc = "run"
    /\ Len(dq.popped) = 1 /\ dq.popped[1].index = 1
    /\ dq.wake[2] < dq.wake[1]
    /\ \E i \in 1..Len(dq.q) : dq.q[i].index = 0

RECURSIVE SumPayloadLen(_)
SumPayloadLen(frames) ==
    IF frames = <<>> THEN 0
    ELSE Head(frames).payloadlen[2] + SumPayloadLen(Tail(frames))

\* C31: when sendData has returned for a product of n bytes it has multicast
\* ceil(n / VCMTP_DATA_LEN) MEM_DATA frames with the product's index; the
\* k-th of them (from 0) has seqnum k * VCMTP_DATA_LEN and the bytes of the
\* product from that offset; every frame but the last has payloadlen
\* VCMTP_DATA_LEN, the last has the rest; the payload lengths add up to n.
C31_DataFramesCoverProduct ==
    sd.pc = "returned"
       => LET n == sd.size
              f == sd.out
          IN  /\ Len(f) = NumBlocks(n)
              /\ \A i \in 1..Len(f) :
                    LET off == (i - 1) * VCMTP_DATA_LEN
                        len == IF i < Len(f) THEN VCMTP_DATA_LEN ELSE n - off
                    IN  /\ f[i].flags = htons(VCMTP_MEM_DATA)
                        /\ f[i].prodindex = htonl(sd.index)
                        /\ f[i].seqnum = htonl(off)
                        /\ f[i].payloadlen = htons(len)
                        /\ f[i].body = DataBytes(off, len)
                        /\ 0 < len /\ len <= VCMTP_DATA_LEN
              /\ SumPayloadLen(f) = n

\* sendData has returned for a product whose last block is shorter than
\* the others
C31_Witness ==
    /\ sd.pc = "returned"
    /\ sd.size = 2 * VCMTP_DATA_LEN + 1
    /\ Len(sd.out) = 3
    /\ sd.out[3].payloadlen = htons(1)

\* C32: a worker that handles a RETX_REQ or a BOP_REQ with the entry its
\* lookup returned, and so reads that entry's fields to build RETX_DATA or
\* RETX_BOP, does so while the entry is still in the table: it has not been
\* removed and deleted since the lookup.
C32_EntryReadWhilePresent ==
    [][\A c \in Conns :
          (/\ wpc[c] = "handle" /\ wpc'[c] \in {"parse", "none"}
           /\ ReadsEntry(whdr[c])
           /\ wmeta[c].present)
          => ~EntryFreed(wmeta[c])]_vars

\* C33: when sendProduct, the EOP multicast, sets the timer parameters in
\* the entry addRetxMetadata gave it and pushes the product on the delay
\* queue, that entry is still in the table: it was not removed and deleted
\* in the meantime; and the product is pushed unless the queue is disabled.
C33_SenderEntryAlive ==
    [][(spc = "setTimer" /\ (spc' # "setTimer" \/ crashed' # crashed))
          => /\ ~SenderEntryFreed
             /\ (spc' = "idle" /\ ~qDisabled)
                   => \E i \in 1..Len(timerDelayQ') :
                         timerDelayQ'[i].index = prodIndex]_vars

\* C34: the thread list holds the handle of a retransmission thread only if
\* that thread has not run its exit clean-up (the handler of StartRetxThread,
\* which removes the handle from the list).
C34_ListHoldsLiveWorkers == \A c \in retxThreadList : wpc[c] # "none"

\* C35: for every seqnum and every payloadlen above 0, every frame that
\* retransmit sends carries bytes of the product only (offsets from 0 up to
\* prodLength), it sends at most ceil(payloadlen / VCMTP_DATA_LEN) + 1
\* frames, and it does not end by reading outside the product.
C35_RetransmitStaysInProduct ==
    (rx.pc \in {"loop", "done", "fault"} /\ 0 < rx.payloadlen)
       => /\ \A i \in 1..Len(rx.l.frames) :
                rx.l.frames[i].seqnum[2] + rx.l.frames[i].payloadlen[2]
                    <= rx.prodLength
          /\ Len(rx.l.frames) <= NumBlocks(rx.payloadlen) + 1
          /\ rx.pc # "fault"

\* C36: a worker that handles a RETX_END for a product whose entry is in the
\* table, from a connection that is not in the entry's unfinished set,
\* leaves the entry as it is and calls no notifier.
C36_NonMemberEndIgnored ==
    [][\A c \in Conns :
          (/\ wpc[c] = "handle" /\ wpc'[c] = "parse"
           /\ whdr[c].flags = VCMTP_RETX_END
           /\ indexMetaMap[whdr[c].prodindex].present
           /\ c \notin indexMetaMap[whdr[c].prodindex].unfinReceivers)
          => /\ indexMetaMap' = indexMetaMap
             /\ notified' = notified]_vars
====
